---- MODULE Spec2Model ----
(***************************************************************************)
(* A model of node_util.py (casper-node-launcher maintainer script): the   *)
(* classification of a protocol version's on-disk state, the download /    *)
(* extract / configure pipeline of stage_protocols and the check commands. *)
(*                                                                         *)
(* Text is modelled as TLA+ strings, a text file as a one-element tuple    *)
(* holding its content (<<>> when the file does not exist), a file read    *)
(* with splitlines() as the sequence of its lines.                         *)
(***************************************************************************)
EXTENDS Integers, Sequences, FiniteSets, TLC

(***************************************************************************)
(* Bounds of the model.                                                    *)
(***************************************************************************)
\* longest catalog the server answers with
MaxCatalog == 2

\* protocol versions the server may list (directory names under both roots)
Versions == {"1_0_0", "1_4_0"}

(***************************************************************************)
(* Values.                                                                 *)
(***************************************************************************)
\* Python's None, and an absent file
None == <<>>
Some(x) == <<x>>
NoFile == <<>>
File(content) == <<content>>
Exists(f) == f # NoFile
Content(f) == f[1]

\* class Status(enum.Enum)
UNSTAGED == "UNSTAGED"
NO_CONFIG == "NO_CONFIG"
BIN_ONLY == "BIN_ONLY"
CONFIG_ONLY == "CONFIG_ONLY"
STAGED == "STAGED"
WRONG_NETWORK == "WRONG_NETWORK"
Status == {UNSTAGED, NO_CONFIG, BIN_ONLY, CONFIG_ONLY, STAGED, WRONG_NETWORK}

(***************************************************************************)
(* String helpers (Python's slicing, str.find, str.split, str.replace).    *)
(***************************************************************************)
\* s[:n]
Take(s, n) == SubSeq(s, 1, IF n < Len(s) THEN n ELSE Len(s))
\* s[n:]
Drop(s, n) == IF n >= Len(s) THEN "" ELSE SubSeq(s, n + 1, Len(s))

\* 1-based index of the first occurrence of sub in s, 0 when there is none
Find(s, sub) ==
    LET hits == {i \in 1..(Len(s) - Len(sub) + 1) : SubSeq(s, i, i + Len(sub) - 1) = sub}
    IN  IF hits = {} THEN 0 ELSE CHOOSE i \in hits : \A j \in hits : i <= j

\* s.split(sep)[0]
SplitFirst(s, sep) ==
    IF Find(s, sep) = 0 THEN s ELSE Take(s, Find(s, sep) - 1)

\* s.split(sep)[1], for an s that contains sep
SplitSecond(s, sep) ==
    SplitFirst(Drop(s, Find(s, sep) + Len(sep) - 1), sep)

\* s.replace(old, new): every non-overlapping occurrence, leftmost first
RECURSIVE Replace(_, _, _)
Replace(s, old, new) ==
    IF Len(s) < Len(old) THEN s
    ELSE IF Take(s, Len(old)) = old
         THEN new \o Replace(Drop(s, Len(old)), old, new)
         ELSE Take(s, 1) \o Replace(Drop(s, 1), old, new)

\* s.strip(): leading and trailing whitespace removed
Whitespace == {" ", "\n", "\t", "\r"}
RECURSIVE LStrip(_)
LStrip(s) == IF s # "" /\ Take(s, 1) \in Whitespace THEN LStrip(Drop(s, 1)) ELSE s
RECURSIVE RStrip(_)
RStrip(s) ==
    IF s # "" /\ Drop(s, Len(s) - 1) \in Whitespace THEN RStrip(Take(s, Len(s) - 1)) ELSE s
Strip(s) == RStrip(LStrip(s))

(***************************************************************************)
(* _chainspec_name: the name of the first line that starts with name = '   *)
(***************************************************************************)
NAME_DATA == "name = '"

RECURSIVE _chainspec_name(_)
_chainspec_name(lines) ==
    IF lines = <<>> THEN None
    ELSE IF Take(Head(lines), Len(NAME_DATA)) = NAME_DATA
         THEN Some(SplitFirst(SplitSecond(Head(lines), NAME_DATA), "'"))
         ELSE _chainspec_name(Tail(lines))

(***************************************************************************)
(* _is_valid_ip: ipaddress.ip_address accepts the text.  The dotted-quad   *)
(* rules of IPv4Address are modelled: four octets, each one to three       *)
(* decimal digits, no leading zero, at most 255.  None is never valid.     *)
(***************************************************************************)
Digits == <<"0", "1", "2", "3", "4", "5", "6", "7", "8", "9">>
IsDigit(c) == \E k \in 1..10 : Digits[k] = c
DigitValue(c) == (CHOOSE k \in 1..10 : Digits[k] = c) - 1

RECURSIVE Split(_, _)
\* s.split(sep)
Split(s, sep) ==
    IF Find(s, sep) = 0 THEN <<s>>
    ELSE <<Take(s, Find(s, sep) - 1)>> \o Split(Drop(s, Find(s, sep) + Len(sep) - 1), sep)

RECURSIVE DecimalValue(_)
DecimalValue(s) ==
    IF s = "" THEN 0
    ELSE 10 * DecimalValue(Take(s, Len(s) - 1)) + DigitValue(Drop(s, Len(s) - 1))

IsOctet(s) ==
    /\ Len(s) >= 1
    /\ Len(s) <= 3
    /\ \A k \in 1..Len(s) : IsDigit(SubSeq(s, k, k))
    /\ (Len(s) > 1 => Take(s, 1) # "0")
    /\ DecimalValue(s) <= 255

_is_valid_ip(ip) ==
    /\ ip # None
    /\ Len(Split(Content(ip), ".")) = 4
    /\ \A k \in 1..4 : IsOctet(Split(Content(ip), ".")[k])

(***************************************************************************)
(* The filesystem under CONFIG_PATH and BIN_PATH.  One record per protocol *)
(* version: CONFIG_PATH/<version> with the four files the script reads or  *)
(* writes, BIN_PATH/<version> and the binary in it.                        *)
(***************************************************************************)
EmptyDir ==
    [config_dir |-> FALSE, chainspec_toml |-> NoFile, config_toml |-> NoFile,
     config_example_toml |-> NoFile, config_toml_new |-> NoFile,
     bin_dir |-> FALSE, casper_node |-> FALSE]

(***************************************************************************)
(* _check_staged_version: the Status of one version, "SystemExit" when the *)
(* network name is not loaded, "FileNotFoundError" when chainspec.toml is  *)
(* read (line 155) and does not exist.                                     *)
(***************************************************************************)
\* (variant: the binary probe looks at BIN_PATH/version, not at the casper-node file)
CheckStagedProbingBinDir(d, network_name) ==
    IF network_name = None \/ network_name = Some("") THEN "SystemExit"
    ELSE IF ~d.config_dir
         THEN IF ~d.bin_dir THEN UNSTAGED ELSE BIN_ONLY
    ELSE IF ~d.bin_dir THEN CONFIG_ONLY
    ELSE IF ~Exists(d.config_toml) THEN NO_CONFIG
    ELSE IF ~Exists(d.chainspec_toml) THEN "FileNotFoundError"
    ELSE IF _chainspec_name(Content(d.chainspec_toml)) # network_name THEN WRONG_NETWORK
    ELSE STAGED

_check_staged_version(d, network_name) ==
    IF network_name = None \/ network_name = Some("") THEN "SystemExit"
    ELSE IF ~d.config_dir
         THEN IF ~d.casper_node THEN UNSTAGED ELSE BIN_ONLY
    ELSE IF ~d.casper_node THEN CONFIG_ONLY
    ELSE IF ~Exists(d.config_toml) THEN NO_CONFIG
    ELSE IF ~Exists(d.chainspec_toml) THEN "FileNotFoundError"
    ELSE IF _chainspec_name(Content(d.chainspec_toml)) # network_name THEN WRONG_NETWORK
    ELSE STAGED

\* (variant: the probe of the config directory creates it)
ProbedCreating(d) == [d EXCEPT !.config_dir = TRUE]

\* the version's directories after _check_staged_version: lines 146-155 call
\* Path.exists and Path.read_text only
Probed(d) == d

(***************************************************************************)
(* _load_config_values: KEY=VALUE lines; a later line overrides an earlier *)
(* one; a non-blank line without exactly one '=' raises ValueError.        *)
(***************************************************************************)
BadLine(lines) ==
    \E k \in 1..Len(lines) : lines[k] # "" /\ Len(Split(lines[k], "=")) # 2

RECURSIVE ConfigGet(_, _)
ConfigGet(lines, key) ==
    IF lines = <<>> THEN None
    ELSE IF lines[Len(lines)] # "" /\ Split(lines[Len(lines)], "=")[1] = key
         THEN Some(Split(lines[Len(lines)], "=")[2])
         ELSE ConfigGet(SubSeq(lines, 1, Len(lines) - 1), key)

\* config.get(bin_mode, "mainnet")
BinModeOf(lines) ==
    IF ConfigGet(lines, "BIN_MODE") = None THEN Some("mainnet") ELSE ConfigGet(lines, "BIN_MODE")

\* the process has ended: exit(code), or an exception nobody catches
\* (the interpreter prints the traceback and exits with status 1)
Exit(r, code) ==
    [r EXCEPT !.pc = "done", !.at = r.pc, !.result = code, !.raised = "SystemExit"]
Raise(r, exc) ==
    [r EXCEPT !.pc = "done", !.at = r.pc, !.result = 1, !.raised = exc]

\* (variant: NETWORK_NAME is not among the expected keys and defaults to '')
LoadConfigValuesExpectingUrlOnly(r, file) ==
    IF ~Exists(file) THEN Raise(r, "FileNotFoundError")
    ELSE IF BadLine(Content(file)) THEN Raise(r, "ValueError")
    ELSE IF ConfigGet(Content(file), "SOURCE_URL") = None THEN Exit(r, 1)
    ELSE [r EXCEPT !.pc = "loaded",
                   !._url = ConfigGet(Content(file), "SOURCE_URL"),
                   !._network_name = IF ConfigGet(Content(file), "NETWORK_NAME") = None
                                     THEN Some("")
                                     ELSE ConfigGet(Content(file), "NETWORK_NAME"),
                   !._bin_mode = BinModeOf(Content(file))]

_load_config_values(r, file) ==
    IF ~Exists(file) THEN Raise(r, "FileNotFoundError")
    ELSE IF BadLine(Content(file)) THEN Raise(r, "ValueError")
    ELSE IF ConfigGet(Content(file), "SOURCE_URL") = None THEN Exit(r, 1)
    ELSE IF ConfigGet(Content(file), "NETWORK_NAME") = None THEN Exit(r, 1)
    ELSE [r EXCEPT !.pc = "loaded",
                   !._url = ConfigGet(Content(file), "SOURCE_URL"),
                   !._network_name = ConfigGet(Content(file), "NETWORK_NAME"),
                   !._bin_mode = BinModeOf(Content(file))]

\* _get_platform: the PLATFORM file's text, "deb" without the file
_get_platform(file) == IF Exists(file) THEN Content(file) ELSE "deb"

\* the _network_url property
_network_url(r) == "http://" \o Content(r._url) \o "/" \o Content(r._network_name)

(***************************************************************************)
(* _pull_protocol_version, lines 195-210: the archive names and URLs.      *)
(***************************************************************************)
config_file == "config.tar.gz"

\* (variant: the mode suffix is appended before the platform suffix)
BinFileModeFirst(platform, bin_mode) ==
    "bin" \o (IF bin_mode # Some("mainnet") THEN "_new" ELSE "")
          \o (IF platform # "deb" THEN "_" \o platform ELSE "")
          \o ".tar.gz"

bin_file(platform, bin_mode) ==
    "bin" \o (IF platform # "deb" THEN "_" \o platform ELSE "")
          \o (IF bin_mode # Some("mainnet") THEN "_new" ELSE "")
          \o ".tar.gz"

config_url(r, pv) == _network_url(r) \o "/" \o pv \o "/" \o config_file
bin_url(r, pv) == _network_url(r) \o "/" \o pv \o "/" \o bin_file(r.platform, r._bin_mode)

(***************************************************************************)
(* _extract_tar_gz.  An archive is the members it holds and whether the    *)
(* extraction ends without an error: with ok = FALSE the members named are *)
(* those written before the error (a later member that cannot be written,  *)
(* an I/O error; none for a file tarfile cannot read: getmembers() raises  *)
(* before the first extract).  tf.extract creates the target directory     *)
(* with the first member, so an archive without members creates nothing.   *)
(***************************************************************************)
ExtractConfig(d, a) ==
    [d EXCEPT !.config_dir = d.config_dir \/ Exists(a.chainspec_toml)
                               \/ Exists(a.config_example_toml) \/ Exists(a.config_toml),
              !.chainspec_toml = IF Exists(a.chainspec_toml) THEN a.chainspec_toml ELSE @,
              !.config_example_toml =
                    IF Exists(a.config_example_toml) THEN a.config_example_toml ELSE @,
              !.config_toml = IF Exists(a.config_toml) THEN a.config_toml ELSE @]

ExtractBin(d, a) ==
    [d EXCEPT !.bin_dir = d.bin_dir \/ a.casper_node \/ a.other,
              !.casper_node = d.casper_node \/ a.casper_node]

(***************************************************************************)
(* _get_external_ip: the answers of the three services, in order.          *)
(***************************************************************************)
\* lines 243-246: the text a service contributes
AnswerIp(ans) == IF ans.status # 200 THEN "" ELSE Strip(ans.data)

RECURSIVE NonEmpty(_)
NonEmpty(seq) ==
    IF seq = <<>> THEN <<>>
    ELSE (IF Head(seq) # "" THEN <<Head(seq)>> ELSE <<>>) \o NonEmpty(Tail(seq))

CountOf(seq, x) == Cardinality({k \in 1..Len(seq) : seq[k] = x})

\* Counter(ips).most_common(1)[0][0]: the highest count, the first seen on a tie
MostCommon(ips) ==
    ips[CHOOSE k \in 1..Len(ips) :
            /\ \A j \in 1..Len(ips) : CountOf(ips, ips[j]) <= CountOf(ips, ips[k])
            /\ \A j \in 1..(k - 1) : CountOf(ips, ips[j]) < CountOf(ips, ips[k])]

\* the address returned (None for none); a cached address is returned as is
_get_external_ip(cached, answers) ==
    IF cached # None THEN cached
    ELSE LET ips == NonEmpty([k \in 1..Len(answers) |-> AnswerIp(answers[k])])
         IN  IF ips # <<>> /\ _is_valid_ip(Some(MostCommon(ips)))
             THEN Some(MostCommon(ips))
             ELSE None

(***************************************************************************)
(* _config_from_example, lines 270-295, on the directory of one version.   *)
(* ConfigOutcome is "written", or the reason nothing was written.          *)
(***************************************************************************)
PLACEHOLDER == "<IP ADDRESS>"

\* (variant: an address the caller supplies is used without the check at 285)
ConfigOutcomeTrustingGivenIp(d, ip) ==
    IF ~Exists(d.config_example_toml) THEN "no example"
    ELSE IF ip = None THEN "invalid ip"
    ELSE "written"

ConfigOutcome(d, ip) ==
    IF ~Exists(d.config_example_toml) THEN "no example"
    ELSE IF ~_is_valid_ip(ip) THEN "invalid ip"
    ELSE "written"

\* line 295: the text written
ConfigText(d, ip) == Replace(Content(d.config_example_toml), PLACEHOLDER, Content(ip))

\* lines 289-295: the directory after the write
ConfigOverwritingWrite(d, ip) ==
    [d EXCEPT !.config_toml = File(ConfigText(d, ip))]

\* (variant: the output always goes to config.toml.new)
ConfigWriteAlwaysNew(d, ip) ==
    [d EXCEPT !.config_toml_new = File(ConfigText(d, ip))]

ConfigWrite(d, ip) ==
    IF Exists(d.config_toml)
    THEN [d EXCEPT !.config_toml_new = File(ConfigText(d, ip))]
    ELSE [d EXCEPT !.config_toml = File(ConfigText(d, ip))]

(***************************************************************************)
(* The inputs: what is on disk before the command, what the servers        *)
(* answer, what the operator passes.                                       *)
(***************************************************************************)
GoodChainspec == <<"[protocol]", "name = 'casper'">>
OtherChainspec == <<"name = 'casper-test'", "name = 'casper'">>
NamelessChainspec == <<"[protocol]", " name = 'casper'">>

ExampleText == "public_address = '<IP ADDRESS>:0'"
OperatorText == "public_address = '192.168.0.7:35000'"

ConfigDirOf(chainspec, config, example) ==
    [EmptyDir EXCEPT !.config_dir = TRUE, !.chainspec_toml = chainspec,
                     !.config_toml = config, !.config_example_toml = example]
WithBinary(d) == [d EXCEPT !.bin_dir = TRUE, !.casper_node = TRUE]

\* the states of a version's directories a command may find
InitDirs ==
    { EmptyDir,
      [EmptyDir EXCEPT !.bin_dir = TRUE],
      WithBinary(EmptyDir),
      ConfigDirOf(File(GoodChainspec), NoFile, File(ExampleText)),
      WithBinary(ConfigDirOf(File(GoodChainspec), NoFile, File(ExampleText))),
      WithBinary(ConfigDirOf(File(GoodChainspec), NoFile, NoFile)),
      WithBinary(ConfigDirOf(File(GoodChainspec), File(OperatorText), File(ExampleText))),
      WithBinary(ConfigDirOf(File(OtherChainspec), File(OperatorText), File(ExampleText))),
      WithBinary(ConfigDirOf(File(NamelessChainspec), File(OperatorText), File(ExampleText))),
      WithBinary(ConfigDirOf(NoFile, File(OperatorText), File(ExampleText))) }

\* the network config files under NET_CONFIG_PATH the operator may name
NetConfigFiles ==
    { File(<<"SOURCE_URL=genesis.casperlabs.io", "NETWORK_NAME=casper">>),
      File(<<"SOURCE_URL=genesis.casperlabs.io", "NETWORK_NAME=casper", "", "BIN_MODE=new">>),
      File(<<"SOURCE_URL=genesis.casperlabs.io">>),
      File(<<"NETWORK_NAME=casper">>),
      File(<<"SOURCE_URL=genesis.casperlabs.io", "NETWORK_NAME=">>),
      File(<<"SOURCE_URL=genesis.casperlabs.io", "NETWORK_NAME=casper", "BIN_MODE">>),
      NoFile }

PlatformFiles == {NoFile, File("rpm")}
Users == {"casper", "root"}
Commands == {"stage_protocols", "check_protocols", "check_for_upgrade"}

\* --ip: absent, or an address argparse has parsed with ip_address
ArgIps == {None, Some("10.0.0.1")}

\* answers of an address-echo service
ServiceAnswers ==
    { [status |-> 200, data |-> "10.0.0.1"],
      [status |-> 200, data |-> "bogus"],
      [status |-> 503, data |-> "unavailable"] }

\* config.tar.gz as the server may serve it
ConfigArchive(ok, chainspec, example, config) ==
    [ok |-> ok, chainspec_toml |-> chainspec, config_example_toml |-> example,
     config_toml |-> config]
ConfigArchives ==
    { ConfigArchive(TRUE, File(GoodChainspec), File(ExampleText), NoFile),
      ConfigArchive(TRUE, File(OtherChainspec), File(ExampleText), NoFile),
      ConfigArchive(TRUE, File(GoodChainspec), NoFile, NoFile),
      ConfigArchive(TRUE, File(GoodChainspec), File(ExampleText), File(OperatorText)),
      ConfigArchive(TRUE, NoFile, File(ExampleText), NoFile),
      ConfigArchive(TRUE, NoFile, NoFile, NoFile),
      ConfigArchive(FALSE, NoFile, NoFile, NoFile),
      ConfigArchive(FALSE, File(GoodChainspec), NoFile, NoFile) }

\* bin*.tar.gz as the server may serve it
BinArchive(ok, node, other) == [ok |-> ok, casper_node |-> node, other |-> other]
BinArchives ==
    { BinArchive(TRUE, TRUE, FALSE), BinArchive(TRUE, FALSE, TRUE),
      BinArchive(TRUE, FALSE, FALSE), BinArchive(FALSE, FALSE, FALSE),
      BinArchive(FALSE, FALSE, TRUE), BinArchive(FALSE, TRUE, FALSE) }

HttpStatuses == {200, 404}

\* the temporary files _pull_protocol_version downloads to
TmpNames ==
    {config_file} \cup {bin_file(_get_platform(f), m) : f \in PlatformFiles,
                                                        m \in {Some("mainnet"), Some("new")}}

\* the catalogs the server may list
Catalogs == UNION {[1..n -> Versions] : n \in 0..MaxCatalog}

Procs == {"p1"}

\* what an invocation can meet: the command lines, the files under CONFIG_PATH
\* that are not of a version, the user, the servers' answers
World ==
    [commands |-> Commands, net_configs |-> NetConfigFiles, arg_ips |-> ArgIps,
     users |-> Users, platform_files |-> PlatformFiles, statuses |-> HttpStatuses,
     config_archives |-> ConfigArchives, bin_archives |-> BinArchives,
     answers |-> ServiceAnswers]

(***************************************************************************)
(* State.                                                                  *)
(***************************************************************************)
VARIABLES
    disk,             \* [Versions -> directory record]: CONFIG_PATH/v and BIN_PATH/v
    bin_path_exists,  \* BIN_PATH exists
    tmp,              \* [TmpNames -> archive file]: downloaded archives not yet deleted
    catalog,          \* the server's protocol_versions
    run               \* [Procs -> the invocation's NodeUtil object and position]

vars == <<disk, bin_path_exists, tmp, catalog, run>>

\* what an invocation is told of the one before it: nothing (the script keeps no
\* state between invocations; the fields serve the properties of runs in a row)
NoPrior == [clean |-> FALSE, recoverable |-> FALSE]

\* NodeUtil.__init__, before the command is dispatched
NewRun ==
    [cmd |-> "", pc |-> "start", args_ip |-> None, config |-> NoFile,
     _url |-> None, _network_name |-> None, _bin_mode |-> None, _external_ip |-> None,
     platform |-> "deb", protocols |-> <<>>, i |-> 0, status |-> "",
     exit_code |-> 0, result |-> -1, raised |-> "", at |-> "",
     answers |-> <<>>, ip |-> None, runs |-> 0, prior |-> NoPrior,
     seen |-> <<>>, log |-> <<>>]

Listed(versions, v) == \E k \in 1..Len(versions) : versions[k] = v

\* a version the server does not list is never looked at: its directories are left out
Init ==
    /\ disk \in [Versions -> InitDirs]
    /\ bin_path_exists \in BOOLEAN
    /\ (~bin_path_exists => \A v \in Versions : ~disk[v].bin_dir)
    /\ tmp = [n \in TmpNames |-> NoFile]
    /\ catalog \in Catalogs
    /\ \A v \in Versions : Listed(catalog, v) \/ disk[v] = EmptyDir
    /\ run = [p \in Procs |-> NewRun]

\* the version the loop is at
Pv(r) == r.protocols[r.i]
Logged(r, op, url) == [r EXCEPT !.log = Append(@, [i |-> r.i, op |-> op, url |-> url])]

(***************************************************************************)
(* The commands.  Every action is one step of an invocation between two    *)
(* accesses to the filesystem or the network.                              *)
(***************************************************************************)
\* stage_protocols 299-307, check_protocols 334-338, check_for_upgrade 350-354:
\* the arguments are parsed and the network config is loaded
LoadConfigValuesIn(E, p) ==
    /\ run[p].pc = "start"
    /\ \E cmd \in E.commands, file \in E.net_configs, ip \in E.arg_ips :
          /\ (cmd # "stage_protocols" => ip = None)
          /\ run' = [run EXCEPT ![p] =
                        _load_config_values([@ EXCEPT !.cmd = cmd, !.args_ip = ip,
                                                       !.config = file], file)]
    /\ UNCHANGED <<disk, bin_path_exists, tmp, catalog>>

LoadConfigValues(p) == LoadConfigValuesIn(World, p)

\* _get_protocols 103-108, after stage_protocols 309-310
\* (_verify_casper_user, _get_platform)
GetProtocolsResult(r, user, platform_file, status) ==
    IF r.cmd = "stage_protocols" /\ user # "casper" THEN Exit(r, 1)
    ELSE LET q == Logged([r EXCEPT !.platform = IF r.cmd = "stage_protocols"
                                                  THEN _get_platform(platform_file) ELSE @],
                         "GET", _network_url(r) \o "/protocol_versions")
         IN  IF status # 200 THEN Raise(q, "IOError")
             ELSE [q EXCEPT !.pc = "loop", !.protocols = catalog, !.i = 1]

GetProtocolsIn(E, p) ==
    /\ run[p].pc = "loaded"
    /\ \E user \in E.users, platform_file \in E.platform_files, status \in E.statuses :
          run' = [run EXCEPT ![p] = GetProtocolsResult(@, user, platform_file, status)]
    /\ UNCHANGED <<disk, bin_path_exists, tmp, catalog>>

GetProtocols(p) == GetProtocolsIn(World, p)

\* what the call of _check_staged_version at 313 / 342 / 356 leaves of the run
Classified(r, st) ==
    LET q == [r EXCEPT !.status = st, !.seen = Append(@, st)]
    IN  IF st = "SystemExit" THEN Exit(q, 1)
        ELSE IF st \notin Status THEN Raise(q, st)
        ELSE q

\* (variant: a config-only version is given a config.toml like a NO_CONFIG one)
StageDecideConfiguringConfigOnly(r, st) ==
    IF st \notin Status THEN Classified(r, st)
    ELSE IF st = STAGED THEN [Classified(r, st) EXCEPT !.i = r.i + 1]
    ELSE IF st = BIN_ONLY
         THEN [Classified(r, st) EXCEPT !.exit_code = 1, !.i = r.i + 1]
    ELSE IF st = UNSTAGED THEN [Classified(r, st) EXCEPT !.pc = "pull"]
    ELSE IF st \in {NO_CONFIG, CONFIG_ONLY} THEN [Classified(r, st) EXCEPT !.pc = "config"]
    ELSE [Classified(r, st) EXCEPT !.i = r.i + 1]

\* stage_protocols 313-325: classify the version, decide what to do with it
StageDecide(r, st) ==
    IF st \notin Status THEN Classified(r, st)
    ELSE IF st = STAGED THEN [Classified(r, st) EXCEPT !.i = r.i + 1]
    ELSE IF st \in {BIN_ONLY, CONFIG_ONLY}
         THEN [Classified(r, st) EXCEPT !.exit_code = 1, !.i = r.i + 1]
    ELSE IF st = UNSTAGED THEN [Classified(r, st) EXCEPT !.pc = "pull"]
    ELSE IF st = NO_CONFIG THEN [Classified(r, st) EXCEPT !.pc = "config"]
    ELSE [Classified(r, st) EXCEPT !.i = r.i + 1]

StageCheck(p) ==
    /\ run[p].cmd = "stage_protocols"
    /\ run[p].pc = "loop"
    /\ run[p].i <= Len(run[p].protocols)
    /\ run' = [run EXCEPT ![p] =
                  StageDecide(@, _check_staged_version(disk[Pv(@)], @._network_name))]
    /\ disk' = [disk EXCEPT ![Pv(run[p])] = Probed(@)]
    /\ UNCHANGED <<bin_path_exists, tmp, catalog>>

\* stage_protocols 330, check_protocols 346: exit(exit_code)
LoopExit(p) ==
    /\ run[p].cmd \in {"stage_protocols", "check_protocols"}
    /\ run[p].pc = "loop"
    /\ run[p].i > Len(run[p].protocols)
    /\ run' = [run EXCEPT ![p] = Exit(@, @.exit_code)]
    /\ UNCHANGED <<disk, bin_path_exists, tmp, catalog>>

\* (variant: the binary archive is fetched before the config archive)
PullChecksBinFirst(r, d) ==
    IF ~bin_path_exists THEN Exit(r, 1)
    ELSE IF d.config_dir THEN Exit(r, 1)
    ELSE IF d.bin_dir THEN Exit(r, 1)
    ELSE [r EXCEPT !.pc = "download_bin"]

\* (variant: the check of the bin version path, 215-217, is left out)
PullChecksWithoutBinCheck(r, d) ==
    IF ~bin_path_exists THEN Exit(r, 1)
    ELSE IF d.config_dir THEN Exit(r, 1)
    ELSE [r EXCEPT !.pc = "download_config"]

\* (variant: the config archive path serves as a lock: a pull does not start while
\* another invocation's config.tar.gz lies there)
PullChecksLocked(r, d) ==
    IF ~bin_path_exists THEN Exit(r, 1)
    ELSE IF d.config_dir THEN Exit(r, 1)
    ELSE IF d.bin_dir THEN Exit(r, 1)
    ELSE IF Exists(tmp[config_file]) THEN Exit(r, 1)
    ELSE [r EXCEPT !.pc = "download_config"]

\* _pull_protocol_version 179-217: the checks before the first download
\* (CONFIG_PATH exists: the network config was read from under it)
PullChecksResult(r, d) ==
    IF ~bin_path_exists THEN Exit(r, 1)
    ELSE IF d.config_dir THEN Exit(r, 1)
    ELSE IF d.bin_dir THEN Exit(r, 1)
    ELSE [r EXCEPT !.pc = "download_config"]

PullChecks(p) ==
    /\ run[p].pc = "pull"
    /\ run' = [run EXCEPT ![p] = PullChecksResult(@, disk[Pv(@)])]
    /\ UNCHANGED <<disk, bin_path_exists, tmp, catalog>>

\* _download_file 159-165
DownloadResult(r, status, next) ==
    IF status # 200 THEN Raise(r, "IOError") ELSE [r EXCEPT !.pc = next]
DownloadTmp(t, name, status, archive) ==
    IF status # 200 THEN t ELSE [t EXCEPT ![name] = File(archive)]

\* _extract_tar_gz 167-172, as the run sees it
ExtractResult(r, file, next) ==
    IF ~Exists(file) THEN Raise(r, "FileNotFoundError")
    ELSE IF ~Content(file).ok THEN Raise(r, "TarError")
    ELSE [r EXCEPT !.pc = next]

\* Path.unlink 223 / 229
UnlinkResult(r, file, next) ==
    IF ~Exists(file) THEN Raise(r, "FileNotFoundError") ELSE next

\* 219-220
DownloadConfigIn(E, p) ==
    /\ run[p].pc = "download_config"
    /\ \E status \in E.statuses, archive \in E.config_archives :
          /\ run' = [run EXCEPT ![p] =
                        DownloadResult(Logged(@, "download config", config_url(@, Pv(@))),
                                       status, "extract_config")]
          /\ tmp' = DownloadTmp(tmp, config_file, status, archive)
    /\ UNCHANGED <<disk, bin_path_exists, catalog>>

DownloadConfig(p) == DownloadConfigIn(World, p)

\* 221
ExtractConfigArchive(p) ==
    /\ run[p].pc = "extract_config"
    /\ run' = [run EXCEPT ![p] =
                  ExtractResult(Logged(@, "extract config", ""), tmp[config_file],
                                "unlink_config")]
    /\ disk' = IF Exists(tmp[config_file])
               THEN [disk EXCEPT ![Pv(run[p])] = ExtractConfig(@, Content(tmp[config_file]))]
               ELSE disk
    /\ UNCHANGED <<bin_path_exists, tmp, catalog>>

\* 222-223
UnlinkConfig(p) ==
    /\ run[p].pc = "unlink_config"
    /\ run' = [run EXCEPT ![p] =
                  UnlinkResult(Logged(@, "unlink config", ""), tmp[config_file],
                               [Logged(@, "unlink config", "") EXCEPT !.pc = "download_bin"])]
    /\ tmp' = [tmp EXCEPT ![config_file] = NoFile]
    /\ UNCHANGED <<disk, bin_path_exists, catalog>>

BinFileOf(r) == bin_file(r.platform, r._bin_mode)

\* 225-226
DownloadBinIn(E, p) ==
    /\ run[p].pc = "download_bin"
    /\ \E status \in E.statuses, archive \in E.bin_archives :
          /\ run' = [run EXCEPT ![p] =
                        DownloadResult(Logged(@, "download bin", bin_url(@, Pv(@))),
                                       status, "extract_bin")]
          /\ tmp' = DownloadTmp(tmp, BinFileOf(run[p]), status, archive)
    /\ UNCHANGED <<disk, bin_path_exists, catalog>>

DownloadBin(p) == DownloadBinIn(World, p)

\* 227
ExtractBinArchive(p) ==
    /\ run[p].pc = "extract_bin"
    /\ run' = [run EXCEPT ![p] =
                  ExtractResult(Logged(@, "extract bin", ""), tmp[BinFileOf(@)],
                                "unlink_bin")]
    /\ disk' = IF Exists(tmp[BinFileOf(run[p])])
               THEN [disk EXCEPT ![Pv(run[p])] =
                        ExtractBin(@, Content(tmp[BinFileOf(run[p])]))]
               ELSE disk
    /\ UNCHANGED <<bin_path_exists, tmp, catalog>>

\* what stage_protocols makes of the value _pull_protocol_version (323-324) or
\* _config_from_example (328-329) returns: neither has a return statement
Returned(r, value) == IF value = None THEN [r EXCEPT !.exit_code = 1] ELSE r

\* 228-229, then back in stage_protocols 323-325
UnlinkBin(p) ==
    /\ run[p].pc = "unlink_bin"
    /\ run' = [run EXCEPT ![p] =
                  UnlinkResult(Logged(@, "unlink bin", ""), tmp[BinFileOf(@)],
                               Returned([Logged(@, "unlink bin", "") EXCEPT !.pc = "config"],
                                        None))]
    /\ tmp' = [tmp EXCEPT ![BinFileOf(run[p])] = NoFile]
    /\ UNCHANGED <<disk, bin_path_exists, catalog>>

\* stage_protocols 327: the address handed to _config_from_example,
\* and 279-280: the address it uses
AddressUsed(r, answers) ==
    IF r.args_ip # None THEN r.args_ip ELSE _get_external_ip(r._external_ip, answers)

\* the services are asked when no address is given and none is cached yet
AsksServices(r, d) ==
    Exists(d.config_example_toml) /\ r.args_ip = None /\ r._external_ip = None

\* _config_from_example 266-295, then stage_protocols 328-329
ConfigRun(r, d, ip) ==
    LET q == IF AsksServices(r, d)
             THEN Logged([r EXCEPT !._external_ip = ip], "get external ip", "")
             ELSE r
    IN  IF ConfigOutcome(d, ip) # "written" THEN Exit(q, 1)
        ELSE Returned([Logged(q, "write config", "") EXCEPT !.pc = "loop", !.i = r.i + 1],
                      None)

ConfigDisk(d, ip) == IF ConfigOutcome(d, ip) = "written" THEN ConfigWrite(d, ip) ELSE d

ConfigFromExampleIn(E, p) ==
    /\ run[p].pc = "config"
    /\ \E ip \in {AddressUsed(run[p], answers) : answers \in [1..3 -> E.answers]} :
          /\ run' = [run EXCEPT ![p] = ConfigRun(@, disk[Pv(@)], ip)]
          /\ disk' = [disk EXCEPT ![Pv(run[p])] = ConfigDisk(@, ip)]
    /\ UNCHANGED <<bin_path_exists, tmp, catalog>>

ConfigFromExample(p) == ConfigFromExampleIn(World, p)

\* check_protocols 341-345
CheckProtocolsStep(r, st) ==
    IF st \notin Status THEN Classified(r, st)
    ELSE [Classified(r, st) EXCEPT !.exit_code = IF st # STAGED THEN 1 ELSE @,
                                   !.i = r.i + 1]

CheckProtocols(p) ==
    /\ run[p].cmd = "check_protocols"
    /\ run[p].pc = "loop"
    /\ run[p].i <= Len(run[p].protocols)
    /\ run' = [run EXCEPT ![p] =
                  CheckProtocolsStep(@, _check_staged_version(disk[Pv(@)], @._network_name))]
    /\ disk' = [disk EXCEPT ![Pv(run[p])] = Probed(@)]
    /\ UNCHANGED <<bin_path_exists, tmp, catalog>>

\* check_for_upgrade 355-360
CheckForUpgradeResult(r, st) ==
    IF st \notin Status THEN Classified(r, st)
    ELSE IF st = UNSTAGED THEN Exit(Classified(r, st), 1)
    ELSE Exit(Classified(r, st), 0)

\* 355: self._get_protocols()[-1]
LastProtocol(r) == [r EXCEPT !.i = Len(r.protocols)]

CheckForUpgrade(p) ==
    /\ run[p].cmd = "check_for_upgrade"
    /\ run[p].pc = "loop"
    /\ run' = [run EXCEPT ![p] =
                  IF @.protocols = <<>> THEN Raise(@, "IndexError")
                  ELSE CheckForUpgradeResult(
                          LastProtocol(@),
                          _check_staged_version(disk[Pv(LastProtocol(@))], @._network_name))]
    /\ disk' = IF run[p].protocols = <<>> THEN disk
               ELSE [disk EXCEPT ![Pv(LastProtocol(run[p]))] = Probed(@)]
    /\ UNCHANGED <<bin_path_exists, tmp, catalog>>

Step(p) ==
    \/ LoadConfigValues(p)
    \/ GetProtocols(p)
    \/ StageCheck(p)
    \/ LoopExit(p)
    \/ PullChecks(p)
    \/ DownloadConfig(p)
    \/ ExtractConfigArchive(p)
    \/ UnlinkConfig(p)
    \/ DownloadBin(p)
    \/ ExtractBinArchive(p)
    \/ UnlinkBin(p)
    \/ ConfigFromExample(p)
    \/ CheckProtocols(p)
    \/ CheckForUpgrade(p)

Next == \E p \in Procs : Step(p)

Spec == Init /\ [][Next]_vars

(***************************************************************************)
(* _check_staged_version called on its own: every state a version's        *)
(* directories can be in, every value self._network_name can hold.         *)
(***************************************************************************)
\* calls of _check_staged_version in a row
MaxCalls == 2

Chainspecs == {NoFile, File(GoodChainspec), File(OtherChainspec), File(NamelessChainspec),
               File(<<>>), File(<<"name = 'casper-test'">>), File(<<"name = 'casper' # main">>)}

\* CONFIG_PATH/version is absent, or holds any of the files
ConfigDirs ==
    {EmptyDir} \cup
    {[ConfigDirOf(c, t, e) EXCEPT !.config_toml_new = n] :
        c \in Chainspecs, t \in {NoFile, File(OperatorText)},
        e \in {NoFile, File(ExampleText)}, n \in {NoFile, File(OperatorText)}}

\* with BIN_PATH/version absent, empty, or holding casper-node
AllDirs ==
    ConfigDirs \cup {[d EXCEPT !.bin_dir = TRUE] : d \in ConfigDirs}
               \cup {WithBinary(d) : d \in ConfigDirs}

NetworkNames == {None, Some(""), Some("casper"), Some("casper-test")}

InitClassify ==
    /\ catalog \in [1..1 -> Versions]
    /\ disk \in [Versions -> AllDirs]
    /\ \A v \in Versions : Listed(catalog, v) \/ disk[v] = EmptyDir
    /\ bin_path_exists = TRUE
    /\ tmp = [n \in TmpNames |-> NoFile]
    /\ run \in {[p \in Procs |-> [NewRun EXCEPT !.pc = "classify", !.protocols = catalog,
                                                 !.i = 1, !._network_name = name]] :
                   name \in NetworkNames}

\* self._check_staged_version(pv)
CheckStagedVersion(p) ==
    /\ run[p].pc = "classify"
    /\ Len(run[p].seen) < MaxCalls
    /\ run' = [run EXCEPT ![p] =
                  Classified(@, _check_staged_version(disk[Pv(@)], @._network_name))]
    /\ disk' = [disk EXCEPT ![Pv(run[p])] = Probed(@)]
    /\ UNCHANGED <<bin_path_exists, tmp, catalog>>

NextClassify == \E p \in Procs : CheckStagedVersion(p)

SpecClassify == InitClassify /\ [][NextClassify]_vars

(***************************************************************************)
(* _config_from_example called on its own: every template, every state of  *)
(* config.toml and config.toml.new, an address given or left to the        *)
(* services.                                                               *)
(***************************************************************************)
Templates ==
    { ExampleText,
      "bind = '<IP ADDRESS>:1' public = '<IP ADDRESS>:2'",
      "<IP ADDRESS><IP ADDRESS>",
      "<<IP ADDRESS>>",
      "<IP ADDRESS",
      "no address here",
      "" }

GivenIps == {None, Some("10.0.0.1"), Some("192.168.0.7"), Some("bogus"), Some("")}

\* a version directory _config_from_example may be called on
MaterializeDirs ==
    {[WithBinary(ConfigDirOf(File(GoodChainspec), t, e)) EXCEPT !.config_toml_new = n] :
        t \in {NoFile, File(OperatorText), File("")},
        e \in {NoFile} \cup {File(x) : x \in Templates},
        n \in {NoFile, File(OperatorText)}}

InitConfig ==
    /\ catalog \in [1..1 -> Versions]
    /\ disk \in [Versions -> MaterializeDirs \cup {EmptyDir}]
    /\ \A v \in Versions : Listed(catalog, v) <=> disk[v] # EmptyDir
    /\ bin_path_exists = TRUE
    /\ tmp = [n \in TmpNames |-> NoFile]
    /\ run \in {[p \in Procs |-> [NewRun EXCEPT !.pc = "config", !.protocols = catalog,
                                                 !.i = 1, !.args_ip = ip,
                                                 !._external_ip = cached]] :
                   ip \in GivenIps, cached \in {None, Some("10.0.0.1")}}

NextConfig == \E p \in Procs : ConfigFromExample(p)

SpecConfig == InitConfig /\ [][NextConfig]_vars

(***************************************************************************)
(* _get_external_ip called on its own: every combination of answers of the *)
(* three services, with and without an address found by an earlier call.   *)
(***************************************************************************)
\* what a lookup service may answer
LookupAnswers ==
    { [status |-> 200, data |-> "10.0.0.1\n"],
      [status |-> 200, data |-> "10.0.0.2"],
      [status |-> 200, data |-> "10.0.0.3"],
      [status |-> 200, data |-> "bogus"],
      [status |-> 200, data |-> "\n"],
      [status |-> 503, data |-> "10.0.0.1"] }

InitExternalIp ==
    /\ catalog = <<>>
    /\ disk = [v \in Versions |-> EmptyDir]
    /\ bin_path_exists = TRUE
    /\ tmp = [n \in TmpNames |-> NoFile]
    /\ run \in {[p \in Procs |-> [NewRun EXCEPT !.pc = "get_external_ip",
                                                 !._external_ip = cached]] :
                   cached \in {None, Some("10.0.0.9")}}

\* ip = self._get_external_ip() (231-255): r of line 242 for each service in
\* turn, the address kept in self._external_ip and the value returned
ExternalIpReturned(r, answers) ==
    [r EXCEPT !.pc = "returned",
              !.answers = IF r._external_ip = None THEN answers ELSE <<>>,
              !.ip = _get_external_ip(r._external_ip, answers),
              !._external_ip = _get_external_ip(r._external_ip, answers)]

GetExternalIp(p) ==
    /\ run[p].pc = "get_external_ip"
    /\ \E answers \in [1..3 -> LookupAnswers] :
          run' = [run EXCEPT ![p] = ExternalIpReturned(@, answers)]
    /\ UNCHANGED <<disk, bin_path_exists, tmp, catalog>>

NextExternalIp == \E p \in Procs : GetExternalIp(p)

SpecExternalIp == InitExternalIp /\ [][NextExternalIp]_vars

(***************************************************************************)
(* Properties.                                                             *)
(***************************************************************************)
\* self._network_name is populated (line 139)
Loaded(r) == r._network_name # None /\ r._network_name # Some("")

\* the version of the latest classification
SeenVersion(r) == r.protocols[r.i]

\* the name chainspec.toml gives equals the loaded network name
SameNetwork(d, r) ==
    Exists(d.chainspec_toml) /\ _chainspec_name(Content(d.chainspec_toml)) = r._network_name

\* the first-match table of the classification
FirstMatch(config_dir, binary, config_toml, same_network) ==
    IF ~config_dir THEN (IF binary THEN BIN_ONLY ELSE UNSTAGED)
    ELSE IF ~binary THEN CONFIG_ONLY
    ELSE IF ~config_toml THEN NO_CONFIG
    ELSE IF ~same_network THEN WRONG_NETWORK
    ELSE STAGED

\* line 155 is reached with no chainspec.toml to read
ChainspecMissing(d) ==
    d.config_dir /\ d.casper_node /\ Exists(d.config_toml) /\ ~Exists(d.chainspec_toml)

\* C1: with the network name loaded, _check_staged_version returns the status the
\* first-match precedence gives for (config directory exists, binary exists,
\* config.toml exists, chainspec name equals the network name); the name is
\* compared wherever there is a chainspec.toml to take it from.
C1_FirstMatchPrecedence ==
    \A p \in Procs :
        LET r == run[p]
            d == disk[SeenVersion(r)]
        IN  (r.seen # <<>> /\ Loaded(r) /\ ~ChainspecMissing(d))
               => r.status = FirstMatch(d.config_dir, d.casper_node, Exists(d.config_toml),
                                        SameNetwork(d, r))

\* a version with everything in place whose chainspec names another network
C1_Witness ==
    \E p \in Procs :
        /\ run[p].seen # <<>>
        /\ run[p].status = WRONG_NETWORK
        /\ disk[SeenVersion(run[p])].chainspec_toml = File(OtherChainspec)

\* C2: with the network name loaded, every call of _check_staged_version returns
\* one of the six Status values and never ends in an error.
C2_ClassificationTotal ==
    \A p \in Procs :
        (run[p].seen # <<>> /\ Loaded(run[p])) => run[p].status \in Status

\* a call counted by the run: the history grows by one
Classifies(p) == Len(run'[p].seen) = Len(run[p].seen) + 1

\* C3: a call of _check_staged_version changes no file or directory, issues no
\* network request, and returns what the call before it returned when nothing
\* was changed in between.
C3_ClassifyPure ==
    [][\A p \in Procs :
          Classifies(p) =>
              /\ disk' = disk
              /\ tmp' = tmp
              /\ bin_path_exists' = bin_path_exists
              /\ run'[p].log = run[p].log
              /\ (run[p].seen # <<>> => run'[p].status = run[p].status)]_vars

\* the same version classified twice in a row, both calls returning a Status
C3_Witness ==
    \E p \in Procs :
        /\ Len(run[p].seen) = 2
        /\ run[p].seen[1] = run[p].seen[2]
        /\ run[p].status \in Status

Staging(r) == r.cmd = "stage_protocols"
Ended(r) == r.pc = "done"
\* the run has the catalog and is in, or through, its loop
HasCatalog(r) == r.i >= 1

\* what the run did for the k-th catalog entry, in order
OpsOf(r, k) ==
    LET mine == SelectSeq(r.log, LAMBDA e : e.i = k)
    IN  [j \in 1..Len(mine) |-> mine[j].op]
Only(ops, named) == SelectSeq(ops, LAMBDA op : op \in named)
IsPrefix(a, b) == Len(a) <= Len(b) /\ a = SubSeq(b, 1, Len(a))

\* the status the k-th catalog entry has now
StatusNow(r, k) == _check_staged_version(disk[r.protocols[k]], r._network_name)

\* the k-th entry was not staged and this run took it through to a staged version
BroughtToStaged(r, k) ==
    /\ r.seen[k] \in {UNSTAGED, NO_CONFIG}
    /\ Only(OpsOf(r, k), {"write config"}) # <<>>
    /\ StatusNow(r, k) = STAGED

EveryVersionStaged(r) ==
    /\ Len(r.seen) = Len(r.protocols)
    /\ \A k \in 1..Len(r.protocols) : r.seen[k] = STAGED \/ BroughtToStaged(r, k)

SawWrongNetwork(r) == \E k \in 1..Len(r.seen) : r.seen[k] = WRONG_NETWORK

\* C4: stage_protocols exits with 0 exactly when every catalog version was observed
\* STAGED or was brought to STAGED by this run, and with 1 exactly when at least
\* one version was not staged.  (Stated for the runs that met no WRONG_NETWORK
\* version: what the exit code says of those is C6.)
C4_ExitCodeTellsStaged ==
    \A p \in Procs :
        (Staging(run[p]) /\ Ended(run[p]) /\ HasCatalog(run[p]) /\ ~SawWrongNetwork(run[p]))
           => /\ (run[p].result = 0) <=> EveryVersionStaged(run[p])
              /\ (run[p].result = 1) <=> ~EveryVersionStaged(run[p])

\* the run ended in a download, an extraction or the config step of catalog entry i
EndedInVersion(r) ==
    /\ Staging(r) /\ Ended(r) /\ HasCatalog(r)
    /\ r.at \in {"download_config", "extract_config", "download_bin", "extract_bin",
                 "config"}

\* C5: an error in the reconciliation of one version (download, extraction, missing
\* example, invalid address) is a failure of that version only: every later
\* catalog entry is still classified and the run ends with a non-zero exit code.
C5_ErrorStaysInVersion ==
    \A p \in Procs :
        EndedInVersion(run[p])
           => Len(run[p].seen) = Len(run[p].protocols) /\ run[p].result # 0

\* C6: a version observed WRONG_NETWORK gets no action, and the run that saw one
\* ends with a non-zero exit code.
C6_WrongNetworkFlagged ==
    \A p \in Procs :
        \A k \in 1..Len(run[p].seen) :
            (Staging(run[p]) /\ run[p].seen[k] = WRONG_NETWORK)
               => /\ OpsOf(run[p], k) = <<>>
                  /\ Ended(run[p]) => run[p].result # 0

PullAndConfigure ==
    <<"download config", "extract config", "download bin", "extract bin", "write config">>
ConfigureOnly == <<"write config">>

\* the downloads, extractions and config writes done for the k-th entry
StagingOps(r, k) ==
    Only(OpsOf(r, k), {PullAndConfigure[j] : j \in 1..Len(PullAndConfigure)})

\* C7: for a version observed UNSTAGED the run downloads the config archive,
\* extracts it, downloads the binary archive, extracts it and then writes the
\* config, in this order; for a version observed NO_CONFIG it writes the config
\* and downloads and extracts nothing.  (A run that ends on the way has done an
\* initial part of the sequence.)
C7_StagingOrder ==
    \A p \in Procs :
        \A k \in 1..Len(run[p].seen) :
            Staging(run[p]) =>
               /\ run[p].seen[k] = UNSTAGED =>
                     /\ IsPrefix(StagingOps(run[p], k), PullAndConfigure)
                     /\ run[p].i > k => StagingOps(run[p], k) = PullAndConfigure
               /\ run[p].seen[k] = NO_CONFIG =>
                     /\ IsPrefix(StagingOps(run[p], k), ConfigureOnly)
                     /\ run[p].i > k => StagingOps(run[p], k) = ConfigureOnly
               /\ run[p].seen[k] \notin {UNSTAGED, NO_CONFIG} => StagingOps(run[p], k) = <<>>

\* an unstaged version pulled and configured, then a NO_CONFIG version configured
C7_Witness ==
    \E p \in Procs :
        /\ Staging(run[p]) /\ Ended(run[p])
        /\ run[p].seen = <<UNSTAGED, NO_CONFIG>>
        /\ StagingOps(run[p], 1) = PullAndConfigure
        /\ StagingOps(run[p], 2) = ConfigureOnly

NotRecoverable == {BIN_ONLY, CONFIG_ONLY}

\* C8: for a version stage_protocols observes as STAGED, BIN_ONLY or CONFIG_ONLY it
\* downloads nothing and changes no file; a BIN_ONLY or CONFIG_ONLY version in the
\* catalog (seen by the run, or on disk when the run ends) makes the exit code
\* non-zero.
C8_NoActionAndFlag ==
    /\ [][\A p \in Procs :
            (Staging(run'[p]) /\ run'[p].status \in {STAGED, BIN_ONLY, CONFIG_ONLY})
               => disk' = disk /\ tmp' = tmp /\ run'[p].log = run[p].log]_vars
    /\ [](\A p \in Procs :
            \A k \in 1..Len(run[p].protocols) :
               (/\ Staging(run[p]) /\ Ended(run[p])
                /\ \/ (k <= Len(run[p].seen) /\ run[p].seen[k] \in NotRecoverable)
                   \/ StatusNow(run[p], k) \in NotRecoverable)
                  => run[p].result # 0)

\* an unstaged version was pulled and configured, a bin-only version was seen
\* after it and left alone
C8_Witness ==
    \E p \in Procs :
        /\ Staging(run[p]) /\ Ended(run[p])
        /\ run[p].seen = <<UNSTAGED, BIN_ONLY>>
        /\ StagingOps(run[p], 1) = PullAndConfigure
        /\ OpsOf(run[p], 2) = <<>>
        /\ run[p].result = 1

\* the download of this step was answered with a status other than 200
DownloadRefused(p, at) ==
    /\ run[p].pc = at
    /\ run'[p].raised = "IOError"

\* C10: when an archive download of _pull_protocol_version is answered with a
\* status other than 200, the directory the archive would be extracted to does
\* not exist afterwards and nothing that was on disk before is gone.
C10_RefusedDownload ==
    [][\A p \in Procs :
          /\ DownloadRefused(p, "download_config")
                => ~disk'[Pv(run[p])].config_dir /\ disk' = disk /\ tmp' = tmp
          /\ DownloadRefused(p, "download_bin")
                => ~disk'[Pv(run[p])].bin_dir /\ disk' = disk /\ tmp' = tmp]_vars

\* the binary download was refused after the config archive had been extracted,
\* with another version staged on disk
C10_Witness ==
    \E p \in Procs :
        /\ Ended(run[p]) /\ run[p].raised = "IOError"
        /\ run[p].log[Len(run[p].log)].op = "download bin"
        /\ disk[Pv(run[p])].config_dir
        /\ ~disk[Pv(run[p])].bin_dir
        /\ \E v \in Versions : v # Pv(run[p]) /\ disk[v].casper_node

RECURSIVE Join(_, _)
\* sep.join(parts)
Join(parts, sep) ==
    IF Len(parts) = 1 THEN parts[1]
    ELSE parts[1] \o sep \o Join(Tail(parts), sep)

\* the template with the address in the place of every placeholder: the pieces that
\* the placeholders separate, joined again by the address
Substituted(template, ip) == Join(Split(template, PLACEHOLDER), ip)

\* the address _config_from_example worked with
AddressOf(p) == IF run[p].args_ip # None THEN run[p].args_ip ELSE run'[p]._external_ip

\* C9: _config_from_example never modifies an existing config.toml: with a
\* config.toml in the version directory the output goes to config.toml.new and
\* config.toml is unchanged, without one the output goes to config.toml; the
\* output is the template with every placeholder replaced by the address as given.
C9_ConfigNeverOverwritten ==
    [][\A p \in Procs :
          (run[p].pc = "config" /\ run'[p].pc # "config") =>
              LET d == disk[Pv(run[p])]
                  e == disk'[Pv(run[p])]
                  written == run'[p].pc = "loop"
              IN  /\ e.config_example_toml = d.config_example_toml
                  /\ Exists(d.config_toml) =>
                        /\ e.config_toml = d.config_toml
                        /\ written => e.config_toml_new =
                              File(Substituted(Content(d.config_example_toml),
                                               Content(AddressOf(p))))
                  /\ (~Exists(d.config_toml) /\ written) =>
                        /\ e.config_toml =
                              File(Substituted(Content(d.config_example_toml),
                                               Content(AddressOf(p))))
                        /\ e.config_toml_new = d.config_toml_new]_vars

\* an operator's config.toml is in place and config.toml.new holds the template
\* with both placeholders replaced
C9_Witness ==
    \E p \in Procs :
        \E v \in Versions :
            /\ run[p].pc = "loop"
            /\ disk[v].config_toml = File(OperatorText)
            /\ disk[v].config_example_toml = File("<IP ADDRESS><IP ADDRESS>")
            /\ disk[v].config_toml_new = File("192.168.0.7192.168.0.7")

\* _config_from_example ran to its end or to an exit in this step
ConfigStep(p) == run[p].pc = "config" /\ run'[p].pc # "config"

\* C11: _config_from_example writes neither config.toml nor config.toml.new (and
\* nothing else) when config-example.toml is absent or when the address to use,
\* supplied or resolved (none included), is not a valid IP address; the call
\* ends the process with a failure.
C11_NoWriteOnBadInput ==
    [][\A p \in Procs :
          (/\ ConfigStep(p)
           /\ \/ ~Exists(disk[Pv(run[p])].config_example_toml)
              \/ ~_is_valid_ip(AddressOf(p)))
             => /\ disk' = disk
                /\ tmp' = tmp
                /\ run'[p].pc = "done" /\ run'[p].result = 1
                /\ Only(OpsOf(run'[p], run[p].i), {"write config"}) = <<>>]_vars

\* the services were asked and gave no address: the call ended with no config.toml
\* and no config.toml.new written
C11_Witness ==
    \E p \in Procs :
        /\ Ended(run[p]) /\ run[p].at = "config"
        /\ run[p].args_ip = None /\ run[p]._external_ip = None
        /\ OpsOf(run[p], run[p].i) = <<"get external ip">>
        /\ Exists(disk[Pv(run[p])].config_example_toml)
        /\ ~Exists(disk[Pv(run[p])].config_toml)
        /\ ~Exists(disk[Pv(run[p])].config_toml_new)

\* neither CONFIG_PATH/version nor the binary is there
IsUnstaged(d) == ~d.config_dir /\ ~d.casper_node

\* a check_for_upgrade run that got a catalog with a last version and has ended
UpgradeChecked(r) ==
    /\ r.cmd = "check_for_upgrade" /\ Ended(r) /\ r.at = "loop"
    /\ r.protocols # <<>> /\ Loaded(r)

\* C12: check_for_upgrade classifies the last catalog version only and exits with
\* 1 exactly when that version is UNSTAGED, with 0 otherwise; the versions before
\* the last have no effect on the exit code.
C12_LastVersionDecides ==
    \A p \in Procs :
        UpgradeChecked(run[p])
           => /\ Len(run[p].seen) = 1
              /\ run[p].i = Len(run[p].protocols)
              /\ Len(run[p].log) = 1 /\ run[p].log[1].op = "GET"
              /\ (run[p].result = 1) <=> IsUnstaged(disk[Pv(run[p])])
              /\ (run[p].result = 0) <=> ~IsUnstaged(disk[Pv(run[p])])

\* no line of the network config gives the key a value
LacksKey(lines, key) ==
    \A k \in 1..Len(lines) : lines[k] = "" \/ Split(lines[k], "=")[1] # key

\* the network config named on the command line exists and parses
ConfigParsed(r) == Exists(r.config) /\ ~BadLine(Content(r.config))

\* C13: in the three commands a network config without SOURCE_URL or NETWORK_NAME
\* ends the invocation with a failure before any request is issued and before
\* any file is written (an ended invocation does nothing more); with both keys
\* and no BIN_MODE the binary mode is mainnet.
C13_ConfigLoadFirst ==
    [][\A p \in Procs :
          /\ (run[p].pc = "start" /\ run'[p].pc # "start" /\ ConfigParsed(run'[p])) =>
                LET lines == Content(run'[p].config)
                IN  /\ (LacksKey(lines, "SOURCE_URL") \/ LacksKey(lines, "NETWORK_NAME"))
                          => /\ run'[p].pc = "done" /\ run'[p].result = 1
                             /\ run'[p].log = <<>>
                             /\ disk' = disk /\ tmp' = tmp
                    /\ (/\ ~LacksKey(lines, "SOURCE_URL")
                        /\ ~LacksKey(lines, "NETWORK_NAME")
                        /\ LacksKey(lines, "BIN_MODE"))
                          => run'[p]._bin_mode = Some("mainnet")
          /\ Ended(run[p]) => run'[p] = run[p]]_vars

\* stage_protocols ended at the loading of a network config without NETWORK_NAME,
\* having asked the server nothing
C13_Witness ==
    \E p \in Procs :
        /\ Staging(run[p]) /\ Ended(run[p]) /\ run[p].at = "start"
        /\ run[p].config = File(<<"SOURCE_URL=genesis.casperlabs.io">>)
        /\ run[p].result = 1 /\ run[p].log = <<>>

\* the run asked the three services and _get_external_ip has returned
AskedServices(r) == r.pc = "returned" /\ Len(r.answers) = 3

\* what the k-th service said: its text when it answered with status 200
Said(r, k) == IF r.answers[k].status = 200 THEN Strip(r.answers[k].data) ELSE ""
Failed(r, k) == Said(r, k) = ""
Agreeing(r, x) == {k \in 1..3 : Said(r, k) = x}
ValidSaid(r) == {Said(r, k) : k \in {j \in 1..3 : _is_valid_ip(Some(Said(r, j)))}}

\* C14: over the answers of the three services _get_external_ip returns the address
\* at least two of them give, returns none when the three answers differ pairwise
\* and when all three fail, and chooses the most frequent answer among the valid
\* addresses only (answers that are no valid address are set aside first).
C14_MajorityOfThree ==
    \A p \in Procs :
        AskedServices(run[p]) =>
            LET r == run[p]
            IN  /\ \A x \in ValidSaid(r) :
                      Cardinality(Agreeing(r, x)) >= 2 => r.ip = Some(x)
                /\ (/\ \A k \in 1..3 : ~Failed(r, k)
                    /\ \A j, k \in 1..3 : j # k => Said(r, j) # Said(r, k))
                      => r.ip = None
                /\ (\A k \in 1..3 : Failed(r, k)) => r.ip = None
                /\ \A x \in ValidSaid(r) :
                      (\A y \in ValidSaid(r) \ {x} :
                          Cardinality(Agreeing(r, y)) < Cardinality(Agreeing(r, x)))
                         => r.ip = Some(x)

\* the binary archive name for a platform and a binary mode, case by case
BinArchiveName(platform, bin_mode) ==
    CASE platform = "deb" /\ bin_mode = Some("mainnet") -> "bin.tar.gz"
      [] platform = "deb" /\ bin_mode # Some("mainnet") -> "bin_new.tar.gz"
      [] platform # "deb" /\ bin_mode = Some("mainnet") -> "bin_" \o platform \o ".tar.gz"
      [] OTHER -> "bin_" \o platform \o "_new.tar.gz"

\* the directory of the server the archives of a logged download are under
BaseUrl(r, e) ==
    "http://" \o Content(r._url) \o "/" \o Content(r._network_name) \o "/"
              \o r.protocols[e.i] \o "/"

\* C15: the binary archive _pull_protocol_version requests is bin.tar.gz for
\* platform deb and mode mainnet, bin_new.tar.gz for deb and another mode,
\* bin_{platform}.tar.gz for another platform and mainnet,
\* bin_{platform}_new.tar.gz for another platform and another mode; the config
\* archive is always config.tar.gz.
C15_ArchiveNames ==
    \A p \in Procs :
        \A k \in 1..Len(run[p].log) :
            LET r == run[p]
                e == r.log[k]
            IN  /\ e.op = "download bin" =>
                      e.url = BaseUrl(r, e) \o BinArchiveName(r.platform, r._bin_mode)
                /\ e.op = "download config" => e.url = BaseUrl(r, e) \o "config.tar.gz"

\* a run on an rpm platform with BIN_MODE=new has asked for both archives of 1_4_0
C15_Witness ==
    \E p \in Procs :
        \E j, k \in 1..Len(run[p].log) :
            /\ run[p].platform = "rpm" /\ run[p]._bin_mode = Some("new")
            /\ run[p].log[j].url = "http://genesis.casperlabs.io/casper/1_4_0/config.tar.gz"
            /\ run[p].log[k].url =
                  "http://genesis.casperlabs.io/casper/1_4_0/bin_rpm_new.tar.gz"

\* the run ended with an error in the download or the extraction of the binary
\* archive of catalog entry i
BinaryPullFailed(r) ==
    /\ Staging(r) /\ Ended(r)
    /\ r.at \in {"download_bin", "extract_bin"}
    /\ r.raised \in {"IOError", "TarError"}

\* C16: when the download or the extraction of the binary archive fails after the
\* config archive was extracted, the version's config directory is on disk and
\* the version classifies as CONFIG_ONLY from then on (a state stage_protocols
\* leaves alone and flags, see C8).
C16_ConfigOnlyAfterBinFailure ==
    \A p \in Procs :
        (BinaryPullFailed(run[p]) /\ disk[Pv(run[p])].config_dir)
           => StatusNow(run[p], run[p].i) = CONFIG_ONLY

\* C17: once _pull_protocol_version has downloaded an archive, the temporary file is
\* deleted after the extraction whether it succeeded or failed: when the
\* operation has ended no config.tar.gz and no bin*.tar.gz is left under
\* CONFIG_PATH or BIN_PATH.
C17_TempFilesDeleted ==
    \A p \in Procs :
        \A k \in 1..Len(run[p].seen) :
            (/\ Staging(run[p])
             /\ Only(OpsOf(run[p], k), {"extract config", "extract bin"}) # <<>>
             /\ Ended(run[p]) \/ run[p].i > k)
               => \A n \in TmpNames : ~Exists(tmp[n])

(***************************************************************************)
(* stage_protocols invoked again and again on the same roots, against the  *)
(* same catalog: one installation (user casper, platform deb, one network  *)
(* config, the address left to the lookup services), a server whose        *)
(* archives may be well formed or not.                                     *)
(***************************************************************************)
\* invocations in a row
MaxRuns == 2

Installation ==
    [commands |-> {"stage_protocols"},
     net_configs |-> {File(<<"SOURCE_URL=genesis.casperlabs.io", "NETWORK_NAME=casper">>)},
     arg_ips |-> {None},
     users |-> {"casper"},
     platform_files |-> {NoFile},
     statuses |-> HttpStatuses,
     config_archives |->
        { ConfigArchive(TRUE, File(GoodChainspec), File(ExampleText), NoFile),
          ConfigArchive(TRUE, File(OtherChainspec), File(ExampleText), NoFile),
          ConfigArchive(TRUE, NoFile, NoFile, NoFile),
          ConfigArchive(FALSE, NoFile, NoFile, NoFile) },
     bin_archives |->
        { BinArchive(TRUE, TRUE, FALSE), BinArchive(TRUE, FALSE, TRUE),
          BinArchive(FALSE, TRUE, FALSE) },
     answers |-> {[status |-> 200, data |-> "10.0.0.1"],
                  [status |-> 503, data |-> "unavailable"]}]

\* the run went through its whole loop and left by exit(exit_code), line 330:
\* every download, extraction and config write it attempted succeeded
Completed(r) == Staging(r) /\ Ended(r) /\ r.at = "loop" /\ r.i > Len(r.protocols)

\* the archives fetched for the versions the run pulled were well formed: the
\* binary is there and the chainspec names the configured network
FetchedWellFormed(r, dirs) ==
    \A k \in 1..Len(r.seen) :
        r.seen[k] = UNSTAGED =>
            dirs[r.protocols[k]].casper_node /\ SameNetwork(dirs[r.protocols[k]], r)

\* every catalog version was staged, or one stage_protocols acts on, with a
\* chainspec.toml of the configured network where it kept the one on disk
AllRecoverable(r, dirs) ==
    \A k \in 1..Len(r.seen) :
        /\ r.seen[k] \in {STAGED, UNSTAGED, NO_CONFIG}
        /\ r.seen[k] = NO_CONFIG => SameNetwork(dirs[r.protocols[k]], r)

PriorOf(r, dirs) ==
    [clean |-> Completed(r) /\ FetchedWellFormed(r, dirs),
     recoverable |-> AllRecoverable(r, dirs)]

\* the script is invoked again after the invocation before it has ended
NextRun(p) ==
    /\ run[p].pc = "done"
    /\ run[p].runs + 1 < MaxRuns
    /\ run' = [run EXCEPT ![p] = [NewRun EXCEPT !.runs = run[p].runs + 1,
                                                 !.prior = PriorOf(run[p], disk)]]
    /\ UNCHANGED <<disk, bin_path_exists, tmp, catalog>>

\* the version directories an operator may have left before the first invocation
RunsDirs ==
    { EmptyDir,
      ConfigDirOf(File(GoodChainspec), NoFile, File(ExampleText)),
      WithBinary(ConfigDirOf(File(GoodChainspec), NoFile, File(ExampleText))),
      WithBinary(ConfigDirOf(File(OtherChainspec), NoFile, File(ExampleText))),
      WithBinary(ConfigDirOf(File(GoodChainspec), File(OperatorText), File(ExampleText))) }

InitRuns ==
    /\ disk \in [Versions -> RunsDirs]
    /\ bin_path_exists = TRUE
    /\ tmp = [n \in TmpNames |-> NoFile]
    /\ catalog \in Catalogs \ {<<>>}
    /\ \A v \in Versions : Listed(catalog, v) \/ disk[v] = EmptyDir
    /\ run = [p \in Procs |-> NewRun]

StepRuns(p) ==
    \/ LoadConfigValuesIn(Installation, p)
    \/ GetProtocolsIn(Installation, p)
    \/ StageCheck(p)
    \/ LoopExit(p)
    \/ PullChecks(p)
    \/ DownloadConfigIn(Installation, p)
    \/ ExtractConfigArchive(p)
    \/ UnlinkConfig(p)
    \/ DownloadBinIn(Installation, p)
    \/ ExtractBinArchive(p)
    \/ UnlinkBin(p)
    \/ ConfigFromExampleIn(Installation, p)
    \/ NextRun(p)

NextRuns == \E p \in Procs : StepRuns(p)

SpecRuns == InitRuns /\ [][NextRuns]_vars

\* the version the k-th catalog entry names is one the run stages: it was UNSTAGED,
\* or NO_CONFIG with a chainspec.toml on disk
Actionable(r, k) == r.seen[k] \in {UNSTAGED, NO_CONFIG}
ActionableSameNetwork(r, k) ==
    \/ r.seen[k] = UNSTAGED
    \/ r.seen[k] = NO_CONFIG /\ SameNetwork(disk[r.protocols[k]], r)

\* the invocation got the catalog, asked the server for nothing else and wrote nothing
Idle(r) == Len(r.log) = 1 /\ r.log[1].op = "GET"

\* C18 (as stated): after a stage_protocols run in which every download, extraction
\* and config write succeeded, with well-formed archives, every version that was
\* UNSTAGED or NO_CONFIG classifies as STAGED, and a second run against the same
\* catalog downloads nothing, writes nothing and exits 0.
C18_IdempotentStaging ==
    \A p \in Procs :
        LET r == run[p]
        IN  /\ (Completed(r) /\ FetchedWellFormed(r, disk)) =>
                  \A k \in 1..Len(r.seen) : Actionable(r, k) => StatusNow(r, k) = STAGED
            /\ (r.prior.clean /\ HasCatalog(r)) =>
                  /\ Idle(r)
                  /\ Ended(r) => r.result = 0

\* C18 (amended): after such a run every version that was UNSTAGED, or NO_CONFIG
\* with a chainspec.toml of the configured network, classifies as STAGED; and when
\* the catalog held no version of another kind than these and STAGED ones, a
\* second run against the same catalog downloads nothing, writes nothing,
\* finds every version STAGED and exits 0.
C18_IdempotentWhenRecoverable ==
    /\ [](\A p \in Procs :
            LET r == run[p]
            IN  /\ (Completed(r) /\ FetchedWellFormed(r, disk)) =>
                      \A k \in 1..Len(r.seen) :
                          ActionableSameNetwork(r, k) => StatusNow(r, k) = STAGED
                /\ (r.prior.clean /\ r.prior.recoverable /\ HasCatalog(r)) =>
                      /\ Idle(r)
                      /\ \A k \in 1..Len(r.seen) : r.seen[k] = STAGED
                      /\ Ended(r) => r.result = 0 /\ Len(r.seen) = Len(r.protocols))
    /\ [][\A p \in Procs :
            (run[p].prior.clean /\ run[p].prior.recoverable /\ run'[p].runs = run[p].runs)
               => disk' = disk /\ tmp' = tmp]_vars

\* the second run has ended with 0, idle, after a first run that pulled one version
\* and gave another, NO_CONFIG one its config.toml
C18_Witness ==
    \E p \in Procs :
        /\ run[p].runs = 1 /\ run[p].prior.clean /\ run[p].prior.recoverable
        /\ Ended(run[p]) /\ run[p].result = 0 /\ Idle(run[p])
        /\ run[p].seen = <<STAGED, STAGED>>
        /\ disk["1_0_0"] = WithBinary(ConfigDirOf(File(GoodChainspec),
                                                   File("public_address = '10.0.0.1:0'"),
                                                   File(ExampleText)))
        /\ disk["1_4_0"] = disk["1_0_0"]

(***************************************************************************)
(* The same invocations on roots that hold no version directory at first,  *)
(* where a run may also be killed between any two of its steps.            *)
(***************************************************************************)
\* the process is killed (SIGKILL: exit status 128 + 9 as the shell reports it)
Killed(r) == [r EXCEPT !.pc = "done", !.at = r.pc, !.result = 128 + 9, !.raised = "SIGKILL"]

Kill(p) ==
    /\ run[p].pc \notin {"start", "done"}
    /\ run' = [run EXCEPT ![p] = Killed(@)]
    /\ UNCHANGED <<disk, bin_path_exists, tmp, catalog>>

InitFresh ==
    /\ disk = [v \in Versions |-> EmptyDir]
    /\ bin_path_exists = TRUE
    /\ tmp = [n \in TmpNames |-> NoFile]
    /\ catalog \in Catalogs \ {<<>>}
    /\ run = [p \in Procs |-> NewRun]

NextFresh == \E p \in Procs : StepRuns(p) \/ Kill(p)

SpecFresh == InitFresh /\ [][NextFresh]_vars

\* C20: in every state reachable from roots without version directories by
\* stage_protocols runs in a row (failing and killed ones included) a version's
\* binary directory exists only if its config directory exists: no version is
\* ever seen BIN_ONLY, and no version seen UNSTAGED makes _pull_protocol_version
\* abort on a version path that already exists.
C20_BinaryNeverWithoutConfig ==
    /\ \A v \in Versions : disk[v].bin_dir => disk[v].config_dir
    /\ \A p \in Procs :
          /\ \A k \in 1..Len(run[p].seen) : run[p].seen[k] # BIN_ONLY
          /\ ~(Ended(run[p]) /\ run[p].at = "pull" /\ run[p].raised = "SystemExit")

(***************************************************************************)
(* Two stage_protocols invocations at the same time on the same roots and  *)
(* against the same catalog.  The steps of the two interleave freely: the  *)
(* script takes no lock, and both use the same archive paths               *)
(* (CONFIG_PATH/config.tar.gz, BIN_PATH/<bin_file>).                       *)
(***************************************************************************)
Racers == {"p1", "p2"}

\* the server both invocations talk to: it answers or not, with well-formed archives
RaceServer ==
    [Installation EXCEPT
        !.config_archives = {ConfigArchive(TRUE, File(GoodChainspec), File(ExampleText),
                                           NoFile)},
        !.bin_archives = {BinArchive(TRUE, TRUE, FALSE)},
        !.answers = {[status |-> 200, data |-> "10.0.0.1"]}]

InitRace ==
    /\ disk = [v \in Versions |-> EmptyDir]
    /\ bin_path_exists = TRUE
    /\ tmp = [n \in TmpNames |-> NoFile]
    /\ catalog \in Catalogs \ {<<>>}
    /\ run = [p \in Racers |-> NewRun]

StepRace(p) ==
    \/ LoadConfigValuesIn(RaceServer, p)
    \/ GetProtocolsIn(RaceServer, p)
    \/ StageCheck(p)
    \/ LoopExit(p)
    \/ PullChecks(p)
    \/ DownloadConfigIn(RaceServer, p)
    \/ ExtractConfigArchive(p)
    \/ UnlinkConfig(p)
    \/ DownloadBinIn(RaceServer, p)
    \/ ExtractBinArchive(p)
    \/ UnlinkBin(p)
    \/ ConfigFromExampleIn(RaceServer, p)

NextRace == \E p \in Racers : StepRace(p)

SpecRace == InitRace /\ [][NextRace]_vars

\* the invocation is in the loop at a catalog entry
AtEntry(r) == r.pc # "done" /\ r.i >= 1 /\ r.i <= Len(r.protocols)

\* the invocation passed the checks of _pull_protocol_version for the entry it is
\* at and has not extracted anything yet
PullBegun(r) == AtEntry(r) /\ r.pc \in {"download_config", "extract_config"}

\* the invocation classified the entry it is at UNSTAGED and stands before the checks
BeforePullChecks(r) == AtEntry(r) /\ r.pc = "pull" /\ r.status = UNSTAGED

\* the invocation went through the whole pull of catalog entry k
PulledEntry(r, k) ==
    /\ k <= Len(r.seen) /\ r.seen[k] = UNSTAGED
    /\ IsPrefix(<<"download config", "extract config", "download bin", "extract bin">>,
                Only(OpsOf(r, k), {"download config", "extract config", "download bin",
                                   "extract bin"}))

\* C19: two concurrent stage_protocols invocations are not mutually excluded: while
\* one has begun the pull of a version (its checks passed, its config archive being
\* downloaded or about to be extracted), another that classified the same version
\* UNSTAGED passes the 'version path already exists' checks as well.
C19_NotMutuallyExcluded ==
    \A p \in DOMAIN run : \A q \in DOMAIN run \ {p} :
        (PullBegun(run[p]) /\ BeforePullChecks(run[q]) /\ Pv(run[p]) = Pv(run[q]))
           => PullChecksResult(run[q], disk[Pv(run[q])]).pc = "download_config"

\* both invocations classified the same version UNSTAGED, passed the checks, and
\* both downloaded and extracted its config and binary archives
C19_Witness ==
    \E p \in DOMAIN run : \E q \in DOMAIN run \ {p} :
        /\ run[p].protocols = run[q].protocols
        /\ PulledEntry(run[p], 1) /\ PulledEntry(run[q], 1)

====
